---- MODULE Spec2Model ----
(***************************************************************************)
(* Model of ai-sdk-model-router: the router proxy (modelRouter / router),  *)
(* its selection routine (selectModel) and the tool-call history walk      *)
(* (extractToolCallHistory).                                               *)
(*                                                                         *)
(* Two specifications share this module:                                   *)
(*   SpecHist : extractToolCallHistory over transcripts that grow by one   *)
(*              part per step: the state of its loop after the part and    *)
(*              the value it returns for the transcript so far;            *)
(*   Spec     : construction of a router and proxy calls running           *)
(*              concurrently against a reasoning model and delegates.      *)
(***************************************************************************)
EXTENDS Integers, Sequences, FiniteSets, TLC

(***************************************************************************)
(* Bounds                                                                  *)
(***************************************************************************)
MaxParts == 4        \* freely chosen transcript parts per walk
MaxToolCalls == 3    \* tool-call parts among them
MaxToolResults == 2  \* tool-result parts among them
MaxIgnored == 1      \* skipped parts among them
MaxPrior == 10       \* well-formed call/result pairs read before them
MaxModels == 2       \* longest candidate list
MaxCalls == 2        \* concurrent proxy calls

(***************************************************************************)
(* Program constants                                                       *)
(***************************************************************************)
HistoryLimit == 10   \* maxCalls passed by selectModel

Absent == "absent"   \* JavaScript undefined / missing property

Min(a, b) == IF a < b THEN a ELSE b
Max(a, b) == IF a > b THEN a ELSE b

(***************************************************************************)
(* Transcript parts.  A transcript is modelled flattened: every content    *)
(* part is tagged with the role of the message that holds it; a message    *)
(* whose content is not an array is one part of type "text".               *)
(*   callId stands for  part.toolCallId || part.id                         *)
(*   args   stands for  part.args || part.input                            *)
(***************************************************************************)
CallIds == {"a"}
ToolNames == {"f", "g"}
ArgVals == {"x"}

PriorIds == <<"p1", "p2", "p3", "p4", "p5", "p6", "p7", "p8", "p9", "p10", "p11", "p12">>
PriorTools == <<"h1", "h2", "h3", "h4", "h5", "h6", "h7", "h8", "h9", "h10", "h11", "h12">>

Part(role, type, callId, toolName, args) ==
  [role |-> role, type |-> type, callId |-> callId, toolName |-> toolName, args |-> args]

ToolCallParts ==
  {Part("assistant", "tool-call", id, tn, a) :
     id \in CallIds \cup {Absent}, tn \in ToolNames, a \in ArgVals}

ToolResultParts ==
  {Part("tool", "tool-result", id, tn, Absent) :
     id \in CallIds \cup {Absent}, tn \in ToolNames \cup {Absent}}

\* parts the walk skips: non-array content, a text part, a part under the wrong role
IgnoredParts ==
  {Part("user", "text", Absent, Absent, Absent),
   Part("tool", "tool-call", "a", "f", "x"),
   Part("assistant", "tool-result", "a", "f", Absent)}

IsToolCall(p) == p.role = "assistant" /\ p.type = "tool-call"
IsToolResult(p) == p.role = "tool" /\ p.type = "tool-result"

(***************************************************************************)
(* The pending Map: insertion-ordered sequence of [key, call].             *)
(* A key is the call identifier, or the synthesized `${toolName}-${now}`.  *)
(***************************************************************************)
CallKey(part, t) ==
  IF part.callId # Absent
    THEN [id |-> part.callId, syn |-> Absent, t |-> 0]
    ELSE [id |-> Absent, syn |-> part.toolName, t |-> t]

ResultKey(part) == [id |-> part.callId, syn |-> Absent, t |-> 0]

MapHas(m, key) == \E i \in 1..Len(m) : m[i].key = key

MapIndex(m, key) == CHOOSE i \in 1..Len(m) : m[i].key = key

MapGet(m, key) == m[MapIndex(m, key)].call

\* Map.prototype.set: an existing key keeps its place and takes the new value
MapSet(m, key, call) ==
  IF MapHas(m, key)
    THEN [m EXCEPT ![MapIndex(m, key)] = [key |-> key, call |-> call]]
    ELSE Append(m, [key |-> key, call |-> call])

\* variant: the entry is not deleted
RemoveAt_Keeps(m, i) == m

RemoveAt(m, i) == SubSeq(m, 1, i - 1) \o SubSeq(m, i + 1, Len(m))

MapDelete(m, key) == IF MapHas(m, key) THEN RemoveAt(m, MapIndex(m, key)) ELSE m

\* variant: the last pending entry with that tool name
FirstByName_Last(m, toolName) ==
  IF \E i \in 1..Len(m) : m[i].call.toolName = toolName
    THEN CHOOSE i \in 1..Len(m) :
           /\ m[i].call.toolName = toolName
           /\ \A j \in (i + 1)..Len(m) : m[j].call.toolName # toolName
    ELSE 0

\* index of the first pending entry with that tool name, 0 when there is none
FirstByName(m, toolName) ==
  IF \E i \in 1..Len(m) : m[i].call.toolName = toolName
    THEN CHOOSE i \in 1..Len(m) :
           /\ m[i].call.toolName = toolName
           /\ \A j \in 1..(i - 1) : m[j].call.toolName # toolName
    ELSE 0

(***************************************************************************)
(* One step of the walk.  A walk state is                                  *)
(*   [pending, completed, by] ; `by` is history-keeping of the model: the  *)
(*   transcript position of the result that completed each completed call. *)
(* A recorded call carries `pos`, the transcript position of its part.     *)
(***************************************************************************)
EmptyWalk == [pending |-> <<>>, completed |-> <<>>, by |-> <<>>]

\* assistant branch: pendingToolCalls.set(callId, {toolName, args})
RecordToolCall(w, part, pos, t) ==
  [w EXCEPT !.pending =
     MapSet(w.pending, CallKey(part, t),
            [toolName |-> part.toolName, args |-> part.args, pos |-> pos])]

\* variant: the name fallback takes the first pending call whatever its tool name
MatchIndex_AnyPending(pending, part) ==
  IF part.callId # Absent /\ MapHas(pending, ResultKey(part))
    THEN MapIndex(pending, ResultKey(part))
    ELSE IF part.toolName # Absent /\ Len(pending) > 0 THEN 1 ELSE 0

\* index in pending of the call a tool-result part completes, 0 when none
MatchIndex(pending, part) ==
  IF part.callId # Absent /\ MapHas(pending, ResultKey(part))
    THEN MapIndex(pending, ResultKey(part))
    ELSE IF part.toolName # Absent
           THEN FirstByName(pending, part.toolName)
           ELSE 0

\* tool branch: push the matched call to completed and delete it from pending
MatchToolResult(w, part, pos) ==
  LET i == MatchIndex(w.pending, part) IN
  IF i = 0
    THEN w
    ELSE [pending |-> RemoveAt(w.pending, i),
          completed |-> Append(w.completed, w.pending[i].call),
          by |-> Append(w.by, pos)]

WalkPart(w, part, pos, t) ==
  IF IsToolCall(part) THEN RecordToolCall(w, part, pos, t)
  ELSE IF IsToolResult(part) THEN MatchToolResult(w, part, pos)
  ELSE w

\* variant: slice(0, maxCalls), the oldest calls
SliceLast_Oldest(s, n) == SubSeq(s, 1, Min(n, Len(s)))

\* completedToolCalls.slice(-maxCalls); slice(-0) is slice(0), the whole array
SliceLast(s, n) ==
  IF n = 0 \/ n >= Len(s) THEN s ELSE SubSeq(s, Len(s) - n + 1, Len(s))

\* the rendered history: a sentinel, the numbered lines, or the TypeError of
\* JSON.stringify(undefined).substring
FirstRequest == [kind |-> "first", lines |-> <<>>]
NoToolsYet == [kind |-> "none", lines |-> <<>>]
RenderThrows == [kind |-> "throw", lines |-> <<>>]

\* variant: a call without arguments is rendered like any other
RenderHistory_NoThrow(recentCalls) ==
  IF Len(recentCalls) = 0 THEN NoToolsYet
  ELSE [kind |-> "list",
        lines |-> [i \in 1..Len(recentCalls) |->
                     [n |-> i, toolName |-> recentCalls[i].toolName,
                      argsPreview |-> recentCalls[i].args]]]

RenderHistory(recentCalls) ==
  IF Len(recentCalls) = 0 THEN NoToolsYet
  ELSE IF \E i \in 1..Len(recentCalls) : recentCalls[i].args = Absent THEN RenderThrows
  ELSE [kind |-> "list",
        lines |-> [i \in 1..Len(recentCalls) |->
                     [n |-> i, toolName |-> recentCalls[i].toolName,
                      argsPreview |-> recentCalls[i].args]]]

(***************************************************************************)
(* SpecHist: the walk as a state machine                                   *)
(***************************************************************************)
VARIABLES
  parts,       \* the transcript read so far
  nPrior,      \* leading well-formed call/result pairs in parts
  walk,        \* pendingToolCalls, completedToolCalls (and `by`)
  now,         \* last value Date.now() returned
  recentCalls, \* completedToolCalls.slice(-maxCalls)
  history      \* the value returned

hvars == <<parts, nPrior, walk, now, recentCalls, history>>

\* the router proxy (specification Spec)
VARIABLES
  ctor,         \* "none" | "ok" (proxy returned) | "threw"
  form,         \* which constructor was used
  models,       \* the candidate list held by the proxy's closure
  inputPrompt,  \* the prompt held by the proxy's closure
  debug,        \* the debug flag held by the proxy's closure
  ctorError,    \* the error thrown by the constructor
  calls         \* the proxy calls, each an async invocation

rvars == <<ctor, form, models, inputPrompt, debug, ctorError, calls>>

vars == <<hvars, rvars>>

WalkInit ==
  /\ parts = <<>>
  /\ nPrior = 0
  /\ walk = EmptyWalk
  /\ now = 0
  /\ recentCalls = <<>>
  /\ history = FirstRequest

\* free parts follow no prior pair or MaxPrior of them
FreeIdx == {i \in 1..Len(parts) : i > 2 * nPrior}

CanRead ==
  /\ nPrior \in {0, MaxPrior}
  /\ Cardinality(FreeIdx) < MaxParts

\* tool names are interchangeable: the free parts name them in the order
\* "f", "g" of their first appearance
NamesUsed == {parts[i].toolName : i \in FreeIdx} \ {Absent}

CanName(tn) == tn \in {Absent, "f"} \cup (IF "f" \in NamesUsed THEN ToolNames ELSE {})

\* Date.now() is read for a call without identifier and is seen only through
\* the keys it makes equal: the reading of the same millisecond as the last
\* one is told apart from a later one when a pending key holds the last one
ClockReadings(part) ==
  IF /\ part.callId = Absent
     /\ MapHas(walk.pending, CallKey(part, now))
    THEN {now, now + 1}
    ELSE {now}

CanReadCall == CanRead /\ Cardinality({i \in FreeIdx : IsToolCall(parts[i])}) < MaxToolCalls

CanReadResult == CanRead /\ Cardinality({i \in FreeIdx : IsToolResult(parts[i])}) < MaxToolResults

CanReadIgnored ==
  /\ CanRead
  /\ Cardinality({i \in FreeIdx : ~IsToolCall(parts[i]) /\ ~IsToolResult(parts[i])}) < MaxIgnored

\* after the loop: slice, then render; recentCalls' and history' are what the
\* function returns for the transcript whose walk ended in state w
Returned(w) ==
  /\ recentCalls' = SliceLast(w.completed, HistoryLimit)
  /\ history' = RenderHistory(SliceLast(w.completed, HistoryLimit))

\* an assistant message with one identified call, then the tool message with its result
ReadPriorPair ==
  /\ Len(parts) = 2 * nPrior
  /\ nPrior < MaxPrior
  /\ LET i == nPrior + 1
         c == Part("assistant", "tool-call", PriorIds[i], PriorTools[i], "x")
         r == Part("tool", "tool-result", PriorIds[i], PriorTools[i], Absent)
         n == Len(parts)
     IN /\ parts' = parts \o <<c, r>>
        /\ walk' = WalkPart(WalkPart(walk, c, n + 1, now), r, n + 2, now)
        /\ Returned(WalkPart(WalkPart(walk, c, n + 1, now), r, n + 2, now))
  /\ nPrior' = nPrior + 1
  /\ UNCHANGED now
  /\ UNCHANGED rvars

ReadToolCall ==
  /\ CanReadCall
  /\ \E part \in ToolCallParts :
       \E t \in ClockReadings(part) :
         /\ CanName(part.toolName)
         /\ parts' = Append(parts, part)
         /\ walk' = WalkPart(walk, part, Len(parts) + 1, t)
         /\ Returned(WalkPart(walk, part, Len(parts) + 1, t))
         /\ now' = t
  /\ UNCHANGED nPrior
  /\ UNCHANGED rvars

ReadToolResult ==
  /\ CanReadResult
  /\ \E part \in ToolResultParts :
       /\ CanName(part.toolName)
       /\ parts' = Append(parts, part)
       /\ walk' = WalkPart(walk, part, Len(parts) + 1, now)
       /\ Returned(WalkPart(walk, part, Len(parts) + 1, now))
  /\ UNCHANGED <<nPrior, now>>
  /\ UNCHANGED rvars

ReadIgnored ==
  /\ CanReadIgnored
  /\ \E part \in IgnoredParts :
       /\ parts' = Append(parts, part)
       /\ walk' = WalkPart(walk, part, Len(parts) + 1, now)
       /\ Returned(WalkPart(walk, part, Len(parts) + 1, now))
  /\ UNCHANGED <<nPrior, now>>
  /\ UNCHANGED rvars

HistNext ==
  \/ ReadPriorPair
  \/ ReadToolCall
  \/ ReadToolResult
  \/ ReadIgnored

(***************************************************************************)
(* Properties of the walk                                                  *)
(***************************************************************************)
\* a result part matches a call part: same identifier, or same tool name
Matches(callPart, resultPart) ==
  \/ resultPart.callId # Absent /\ resultPart.callId = callPart.callId
  \/ resultPart.toolName # Absent /\ resultPart.toolName = callPart.toolName

\* a matching result is observed after the tool-call part at position p
HasMatchingResult(p) ==
  \E j \in (p + 1)..Len(parts) : IsToolResult(parts[j]) /\ Matches(parts[p], parts[j])

\* the calls behind the lines of the extracted history
HistoryPositions == {recentCalls[i].pos : i \in 1..Len(recentCalls)}

\* C5: a tool call for which no matching result is observed is never in the
\* extracted history (nor among the completed calls at any point of the walk):
\* every entry is a tool-call part of the transcript followed by a result
\* that matches it.
C5_UnmatchedNeverIncluded ==
  /\ \A p \in 1..Len(parts) :
       IsToolCall(parts[p]) /\ ~HasMatchingResult(p) =>
         /\ p \notin HistoryPositions
         /\ \A i \in 1..Len(walk.completed) : walk.completed[i].pos # p
  /\ \A i \in 1..Len(walk.completed) :
       LET c == walk.completed[i] IN
         /\ c.pos \in 1..Len(parts)
         /\ IsToolCall(parts[c.pos])
         /\ parts[c.pos].toolName = c.toolName
  /\ history.kind = "list" =>
       /\ Len(history.lines) = Len(recentCalls)
       /\ \A i \in 1..Len(recentCalls) :
            /\ history.lines[i].toolName = recentCalls[i].toolName
            /\ \E k \in 1..Len(walk.completed) : walk.completed[k] = recentCalls[i]

\* a history with a line, of a transcript in which another call went unmatched
C5_Witness ==
  /\ history.kind = "list"
  /\ \E p \in 1..Len(parts) : IsToolCall(parts[p]) /\ ~HasMatchingResult(p)
  /\ \E p \in 1..Len(parts) :
       /\ IsToolCall(parts[p]) /\ HasMatchingResult(p)
       /\ \E q \in 1..(p - 1) : IsToolResult(parts[q])

\* the result of a call: an identified result belongs to the call with its
\* identifier, an unidentified one to a call of the tool it names
ResultOf(callPart, resultPart) ==
  IF resultPart.callId # Absent
    THEN resultPart.callId = callPart.callId
    ELSE resultPart.toolName # Absent /\ resultPart.toolName = callPart.toolName

\* the largest number of tool calls that can be paired one-to-one with a
\* later result of theirs, counted over the free parts from position j on
RECURSIVE MaxPairs(_, _)
MaxPairs(j, used) ==
  IF j > Len(parts) THEN 0
  ELSE IF ~IsToolResult(parts[j]) THEN MaxPairs(j + 1, used)
  ELSE LET cands == {p \in FreeIdx : /\ p < j
                                      /\ p \notin used
                                      /\ IsToolCall(parts[p])
                                      /\ ResultOf(parts[p], parts[j])}
           takes == {1 + MaxPairs(j + 1, used \cup {p}) : p \in cands}
           best == {MaxPairs(j + 1, used)} \cup takes
       IN CHOOSE m \in best : \A o \in best : o <= m

\* N: the tool calls of the transcript
ToolCallCount == Cardinality({p \in 1..Len(parts) : IsToolCall(parts[p])})

\* M: the tool calls that have matching results; each prior pair is one, its
\* identifier and tool name occurring nowhere else
MatchedCallCount == nPrior + MaxPairs(2 * nPrior + 1, {})

\* identifiers, where present, are used as identifiers: no two tool-call
\* parts share one, no two tool-result parts share one, and an identified
\* result follows the call that carries its identifier and names no other tool
WellFormedIds ==
  /\ \A p, q \in 1..Len(parts) :
       /\ p # q /\ parts[p].callId # Absent
       /\ \/ IsToolCall(parts[p]) /\ IsToolCall(parts[q])
          \/ IsToolResult(parts[p]) /\ IsToolResult(parts[q])
       => parts[p].callId # parts[q].callId
  /\ \A j \in 1..Len(parts) :
       IsToolResult(parts[j]) /\ parts[j].callId # Absent =>
         \E p \in 1..(j - 1) :
           /\ IsToolCall(parts[p]) /\ parts[p].callId = parts[j].callId
           /\ parts[j].toolName \in {Absent, parts[p].toolName}

\* C6: a transcript with N tool calls, M of them with matching results,
\* yields exactly min(M, historyLimit) history entries (stated for the
\* transcripts with well-formed identifiers).
C6_ExactCount ==
  WellFormedIds =>
    /\ MatchedCallCount <= ToolCallCount
    /\ Len(history.lines) = Min(MatchedCallCount, HistoryLimit)

ModelPool == <<"m1", "m2", "m3", "m4">>
Descriptions == <<"weather", "finance", "formatting", "code">>

Candidate(i) == [model |-> ModelPool[i], description |-> Descriptions[i]]

\* candidate lists of length 0..n
CandidateLists(n) == {[i \in 1..k |-> Candidate(i)] : k \in 0..n}

Forms == {"modelRouter", "router"}

\* call options: an optional tool map (entries in insertion order), the
\* optional messages field, the prompt array, and a field selection never reads
NoTools == [present |-> FALSE, entries |-> <<>>]
EmptyTools == [present |-> TRUE, entries |-> <<>>]
OneTool == [present |-> TRUE, entries |-> <<[name |-> "f", description |-> "runs f"]>>]

NoMessages == [present |-> FALSE, items |-> <<>>]
Messages(items) == [present |-> TRUE, items |-> items]

EmptyTranscript == <<>>
CompletedTranscript ==
  <<Part("assistant", "tool-call", "a", "f", "x"),
    Part("assistant", "tool-call", "b", "g", "x"),
    Part("tool", "tool-result", "a", "f", Absent)>>
NoArgsTranscript ==
  <<Part("assistant", "tool-call", "a", "f", Absent),
    Part("tool", "tool-result", "a", "f", Absent)>>

Options(tools, messages, prompt, temperature) ==
  [tools |-> tools, messages |-> messages, prompt |-> prompt, temperature |-> temperature]

\* the first step of a run: an empty tool map and an empty prompt array
FirstOptions == Options(EmptyTools, NoMessages, Messages(EmptyTranscript), 0)
\* a later step: tools, and a transcript with one completed and one pending call
StepOptions == Options(OneTool, NoMessages, Messages(CompletedTranscript), 1)
\* a transcript given in the messages field, its completed call without arguments
NoArgsOptions == Options(NoTools, Messages(NoArgsTranscript), Messages(CompletedTranscript), 0)

NoOptions == Options(NoTools, NoMessages, NoMessages, 0)

\* options objects are passed by reference: a call holds the reference, the
\* object it names is read through OptionsAt
OptionSet == {"first", "step", "noargs"}

OptionsAt(ref) ==
  CASE ref = "first" -> FirstOptions
    [] ref = "step" -> StepOptions
    [] ref = "noargs" -> NoArgsOptions
    [] OTHER -> NoOptions

\* the proxy calls made: doGenerate in the middle of a tool loop and with an
\* argument-less recorded call, doStream as the first request
Requests ==
  {[method |-> "doGenerate", options |-> o] : o \in {"step", "noargs"}}
    \cup {[method |-> "doStream", options |-> "first"]}

\* the modelIndex values the reasoning model answers with over n candidates:
\* both ends of the valid range 1..n and the value just outside each end
Responses(n) == {0, 1, n, n + 1}

ConfigError == "Router requires at least one model configuration"
TypeError == "TypeError"
ReasoningError == "reasoning model failed"
DelegateError == "delegate failed"

\* variant: construction accepts the empty list
ConstructOutcome_NoCheck(ms) == "ok"

\* if (models.length === 0) throw new Error(...)
ConstructOutcome(ms) == IF Len(ms) = 0 THEN "threw" ELSE "ok"

\* availableTools
RenderTools(tools) ==
  IF ~tools.present THEN [kind |-> "none", lines |-> <<>>]
  ELSE [kind |-> "list",
        lines |-> [i \in 1..Len(tools.entries) |->
                     [name |-> tools.entries[i].name,
                      description |-> IF tools.entries[i].description = Absent
                                        THEN "No description"
                                        ELSE tools.entries[i].description]]]

\* the transcript selectModel hands to extractToolCallHistory
TranscriptOf(o) ==
  IF o.messages.present THEN o.messages
  ELSE IF o.prompt.present THEN o.prompt
  ELSE NoMessages

\* the loop of extractToolCallHistory over items[i..]; t is the value of
\* Date.now(), read only for a call without identifier
RECURSIVE WalkFrom(_, _, _, _)
WalkFrom(w, items, i, t) ==
  IF i > Len(items) THEN w
  ELSE WalkFrom(WalkPart(w, items[i], i, t), items, i + 1, t)

\* variant: no early return, the empty transcript is walked like any other
extractToolCallHistory_NoEarlyReturn(messages, maxCalls) ==
  RenderHistory(SliceLast(WalkFrom(EmptyWalk, messages.items, 1, 0).completed, maxCalls))

extractToolCallHistory(messages, maxCalls) ==
  IF ~messages.present \/ Len(messages.items) = 0 THEN FirstRequest
  ELSE RenderHistory(SliceLast(WalkFrom(EmptyWalk, messages.items, 1, 0).completed, maxCalls))

\* variant: the entries are numbered from 0
RenderModels_ZeroBased(ms) ==
  [i \in 1..Len(ms) |-> [n |-> i - 1, label |-> i - 1, description |-> ms[i].description]]

\* modelOptions
RenderModels(ms) ==
  [i \in 1..Len(ms) |-> [n |-> i, label |-> i, description |-> ms[i].description]]

HistoryOmitted == [kind |-> "omitted", lines |-> <<>>]

\* selectionPrompt of the router() variant: no history section, and the
\* instruction text of that variant
SelectionPromptRouter(ms, query, o) ==
  [template |-> "router",
   query |-> query,
   tools |-> RenderTools(o.tools),
   history |-> HistoryOmitted,
   models |-> RenderModels(ms),
   count |-> Len(ms)]

\* selectionPrompt of the modelRouter() variant
SelectionPromptModelRouter(ms, query, o) ==
  [template |-> "modelRouter",
   query |-> query,
   tools |-> RenderTools(o.tools),
   history |-> extractToolCallHistory(TranscriptOf(o), HistoryLimit),
   models |-> RenderModels(ms),
   count |-> Len(ms)]

SelectionPrompt(f, ms, query, o) ==
  IF f = "modelRouter" THEN SelectionPromptModelRouter(ms, query, o)
  ELSE SelectionPromptRouter(ms, query, o)

\* the synchronous part of selectModel throws while rendering the history
SelectionThrows(f, o) ==
  f = "modelRouter" /\ extractToolCallHistory(TranscriptOf(o), HistoryLimit) = RenderThrows

\* the prompt a call with the options at ref sends, and whether it throws first
PromptFor(ref) == SelectionPrompt(form, models, inputPrompt, OptionsAt(ref))

ThrowsFor(ref) == SelectionThrows(form, OptionsAt(ref))

\* variant: an index outside the list is replaced by the nearest candidate
selectedIndex_Clamped(modelIndex) == Min(Max(modelIndex, 1), Len(models)) - 1

\* variant: the index is used without the shift to 0-based
selectedIndex_NoShift(modelIndex) == modelIndex

\* const selectedIndex = result.object.modelIndex - 1
selectedIndex(modelIndex) == modelIndex - 1

\* models[selectedIndex] is defined (JavaScript arrays are 0-based)
HasIndex(ms, idx) == idx + 1 \in 1..Len(ms)

\* models[selectedIndex].model
ModelAt(ms, idx) == ms[idx + 1].model

\* variant: the delegate is called again
Delegations_Twice(m, method, o) ==
  <<[model |-> m, method |-> method, options |-> o],
    [model |-> m, method |-> method, options |-> o]>>

\* selectedModel.doGenerate(options) / selectedModel.doStream(options)
Delegations(m, method, o) == <<[model |-> m, method |-> method, options |-> o]>>

\* variant: the delegate is given a fresh options object
ForwardedOptions_Fresh(o) == "none"

\* the options argument is passed on as received
ForwardedOptions(o) == o

\* variant: the delegate's result is wrapped
ReturnedResult_Wrapped(r) == [model |-> "model-router", method |-> r.method, value |-> r.value]

\* return result / return stream
ReturnedResult(r) == r

\* variant: errors are replaced by a router error
Propagated_Wrapped(e) == "router error"

\* no try/catch: the rejection of an awaited call is the rejection of the proxy call
Propagated(e) == e

NoResult == [model |-> Absent, method |-> Absent, value |-> Absent]

IdleCall ==
  [pc |-> "idle", method |-> Absent, given |-> "none", options |-> "none",
   received |-> <<>>, response |-> -1, delegated |-> <<>>,
   raisedBy |-> Absent, raised |-> Absent, produced |-> NoResult,
   result |-> NoResult, error |-> Absent, lines |-> <<>>]

CallIdx == 1..MaxCalls

RouterInit ==
  /\ ctor = "none"
  /\ form = Absent
  /\ models = <<>>
  /\ inputPrompt = Absent
  /\ debug = FALSE
  /\ ctorError = Absent
  /\ calls = [c \in CallIdx |-> IdleCall]

Init == RouterInit /\ WalkInit

\* variant: the line is emitted whatever the debug flag
Log_Always(lines, line) == Append(lines, line)

\* log(...)
Log(lines, line) == IF debug THEN Append(lines, line) ELSE lines

\* variant: the options of the first call are held in shared state
OptionsOf_Shared(c) == calls[1].options

\* the options parameter of the invocation c
OptionsOf(c) == calls[c].options

\* modelRouter(config) / router(reasoningModel, models, inputPrompt, options)
Construct ==
  /\ ctor = "none"
  /\ \E f \in Forms, ms \in CandidateLists(MaxModels), d \in BOOLEAN :
       /\ form' = f
       /\ models' = ms
       /\ inputPrompt' = "query"
       /\ debug' = d
       /\ ctor' = ConstructOutcome(ms)
       /\ ctorError' = IF ConstructOutcome(ms) = "threw" THEN ConfigError ELSE Absent
  /\ UNCHANGED calls
  /\ UNCHANGED hvars

\* doGenerate(options) / doStream(options) up to the await of generateObject
Invoke(c) ==
  /\ ctor = "ok"
  /\ calls[c].pc = "idle"
  /\ \A b \in 1..(c - 1) : calls[b].pc # "idle"   \* calls are numbered as they start
  /\ \E req \in Requests :
       LET method == req.method
           o == req.options
       IN calls' = [calls EXCEPT ![c] =
         IF ThrowsFor(o)
           THEN [@ EXCEPT !.pc = "failed", !.method = method, !.given = o, !.options = o,
                          !.raisedBy = "router", !.raised = TypeError,
                          !.error = Propagated(TypeError)]
           ELSE [@ EXCEPT !.pc = "selecting", !.method = method, !.given = o, !.options = o,
                          !.received = Append(@, PromptFor(o)),
                          !.lines = Log(@, <<"Selecting model...">>)]]
  /\ UNCHANGED <<ctor, form, models, inputPrompt, debug, ctorError>>
  /\ UNCHANGED hvars

\* the state of call c once the selected delegate has been called
Delegate(call, c, k, syncThrow) ==
  LET m == ModelAt(models, selectedIndex(k))
      sel == Log(call.lines, <<"Selected", m, "why">>)
      dels == call.delegated \o Delegations(m, call.method, ForwardedOptions(OptionsOf(c)))
  IN IF call.method = "doGenerate"
       THEN [call EXCEPT !.pc = "delegating", !.response = k, !.delegated = dels,
                         !.lines = Log(sel, <<"Generating a response...">>)]
     ELSE IF syncThrow
       THEN [call EXCEPT !.pc = "failed", !.response = k, !.delegated = dels,
                         !.raisedBy = "delegate", !.raised = DelegateError,
                         !.error = Propagated(DelegateError),
                         !.lines = Log(sel, <<"Starting stream...">>)]
     ELSE [call EXCEPT !.pc = "delegating", !.response = k, !.delegated = dels,
                       !.lines = Log(Log(sel, <<"Starting stream...">>), <<"Stream started.">>)]

\* generateObject resolves with modelIndex k: the rest of selectModel, then the
\* proxy method up to its call of the delegate
ReasoningReturns(c) ==
  /\ calls[c].pc = "selecting"
  /\ \E k \in Responses(Len(models)), syncThrow \in BOOLEAN :
       calls' = [calls EXCEPT ![c] =
         IF HasIndex(models, selectedIndex(k))
           THEN Delegate(@, c, k, syncThrow)
           ELSE [@ EXCEPT !.pc = "failed", !.response = k,
                          !.raisedBy = "router", !.raised = TypeError,
                          !.error = Propagated(TypeError)]]
  /\ UNCHANGED <<ctor, form, models, inputPrompt, debug, ctorError>>
  /\ UNCHANGED hvars

\* generateObject rejects
ReasoningFails(c) ==
  /\ calls[c].pc = "selecting"
  /\ calls' = [calls EXCEPT ![c] =
       [@ EXCEPT !.pc = "failed", !.raisedBy = "reasoning", !.raised = ReasoningError,
                 !.error = Propagated(ReasoningError)]]
  /\ UNCHANGED <<ctor, form, models, inputPrompt, debug, ctorError>>
  /\ UNCHANGED hvars

\* the delegate's promise resolves
DelegateReturns(c) ==
  /\ calls[c].pc = "delegating"
  /\ LET d == calls[c].delegated[Len(calls[c].delegated)]
         r == [model |-> d.model, method |-> d.method, value |-> "output"]
     IN calls' = [calls EXCEPT ![c] =
          [@ EXCEPT !.pc = "done", !.produced = r, !.result = ReturnedResult(r),
                    !.lines = IF calls[c].method = "doGenerate"
                                THEN Log(calls[c].lines, <<"Response generated.">>)
                                ELSE calls[c].lines]]
  /\ UNCHANGED <<ctor, form, models, inputPrompt, debug, ctorError>>
  /\ UNCHANGED hvars

\* the delegate's promise rejects
DelegateFails(c) ==
  /\ calls[c].pc = "delegating"
  /\ calls' = [calls EXCEPT ![c] =
       [@ EXCEPT !.pc = "failed", !.raisedBy = "delegate", !.raised = DelegateError,
                 !.error = Propagated(DelegateError)]]
  /\ UNCHANGED <<ctor, form, models, inputPrompt, debug, ctorError>>
  /\ UNCHANGED hvars

Next ==
  \/ Construct
  \/ \E c \in CallIdx : Invoke(c)
  \/ \E c \in CallIdx : ReasoningReturns(c)
  \/ \E c \in CallIdx : ReasoningFails(c)
  \/ \E c \in CallIdx : DelegateReturns(c)
  \/ \E c \in CallIdx : DelegateFails(c)

Spec == Init /\ [][Next]_vars

SpecHist == Init /\ [][HistNext]_vars

(***************************************************************************)
(* Properties of the router proxy                                          *)
(***************************************************************************)
ValidIndex(k) == k \in 1..Len(models)

\* C1: when the reasoning model's structured output has modelIndex = k with
\* k in 1..n, the proxy's doGenerate (resp. doStream) invokes doGenerate
\* (resp. doStream) on candidates[k-1].model and on no other candidate's model.
C1_DelegatesToChosen ==
  \A c \in CallIdx :
    /\ ValidIndex(calls[c].response) =>
         /\ Len(calls[c].delegated) >= 1
         /\ \A i \in 1..Len(calls[c].delegated) :
              /\ calls[c].delegated[i].model = models[calls[c].response].model
              /\ calls[c].delegated[i].method = calls[c].method
    /\ calls[c].delegated # <<>> => ValidIndex(calls[c].response)

\* a doStream call and a doGenerate call, answered with the last and the first
\* index of a list of two, have both delegated
C1_Witness ==
  /\ Len(models) = 2
  /\ \E c, d \in CallIdx :
       /\ calls[c].method = "doStream" /\ calls[c].response = 2 /\ calls[c].pc = "done"
       /\ calls[d].method = "doGenerate" /\ calls[d].response = 1 /\ calls[d].pc = "done"

\* C2 as stated: every call invokes the reasoning model exactly once and then
\* the chosen delegate exactly once (read here for the calls that did not end
\* by an error raised in the router's own code).
C2_ExactlyOnceEach ==
  \A c \in CallIdx :
    calls[c].pc \in {"done", "failed"} /\ calls[c].raisedBy # "router" =>
      /\ Len(calls[c].received) = 1
      /\ Len(calls[c].delegated) = 1

\* C2 amended: every call invokes the reasoning model at most once and the
\* chosen delegate at most once, the delegate only after the reasoning model
\* has responded with a valid index; a call that returns a result has invoked
\* each exactly once, in that order; the prompt sent is computed from the
\* call's own options, also when an earlier call had identical options.
C2_OnceInOrder ==
  \A c \in CallIdx :
    /\ Len(calls[c].received) <= 1
    /\ Len(calls[c].delegated) <= 1
    /\ calls[c].pc = "selecting" => Len(calls[c].received) = 1 /\ calls[c].delegated = <<>>
    /\ calls[c].delegated # <<>> =>
         Len(calls[c].received) = 1 /\ ValidIndex(calls[c].response)
    /\ calls[c].pc \in {"delegating", "done"} =>
         Len(calls[c].received) = 1 /\ Len(calls[c].delegated) = 1
    /\ calls[c].received # <<>> =>
         calls[c].received[1] = PromptFor(calls[c].given)

\* two successive calls with identical options, both returned
C2_Witness ==
  /\ calls[1].pc = "done" /\ calls[2].pc = "done"
  /\ calls[1].given = calls[2].given
  /\ calls[1].method = calls[2].method
  /\ calls[1].response # calls[2].response

\* C3: construction (both forms) succeeds and returns a proxy for every
\* non-empty candidate list, and for the empty list throws the configuration
\* error, before any proxy exists and without calling the reasoning model or
\* any candidate.
C3_Construction ==
  /\ ctor = "ok" => Len(models) >= 1 /\ ctorError = Absent
  /\ ctor = "threw" => Len(models) = 0 /\ ctorError = ConfigError
  /\ ctor # "none" => form \in Forms
  /\ ctor # "ok" => \A c \in CallIdx : calls[c] = IdleCall

\* the positional form has thrown on the empty list
C3_Witness == ctor = "threw" /\ form = "router" /\ Len(models) = 0

\* a failed call is over: nothing is invoked for it any more
FailedIsFinal ==
  \A c \in CallIdx : calls[c].pc = "failed" => calls'[c] = calls[c]

\* what C4 requires of a state
C4_State ==
  \A c \in CallIdx :
    /\ Len(calls[c].received) <= 1
    /\ Len(calls[c].delegated) <= 1
    /\ calls[c].pc = "failed" =>
         /\ calls[c].error = calls[c].raised
         /\ calls[c].result = NoResult
         /\ calls[c].raisedBy = "reasoning" =>
              calls[c].error = ReasoningError /\ calls[c].delegated = <<>>
         /\ calls[c].raisedBy = "delegate" =>
              calls[c].error = DelegateError /\ Len(calls[c].delegated) = 1
    /\ calls[c].raisedBy # Absent => calls[c].pc = "failed"

\* C4: a failure of the reasoning model's call fails the proxy call with that
\* same error and no candidate is invoked; a failure of the chosen candidate
\* fails the proxy call with that same error; there is no retry, no fallback
\* to another candidate and no default selection.
C4_ErrorsPropagate == [](C4_State) /\ [][FailedIsFinal]_vars

\* one call failed by the reasoning model, another by its delegate
C4_Witness ==
  \E c, d \in CallIdx :
    /\ calls[c].pc = "failed" /\ calls[c].raisedBy = "reasoning"
    /\ calls[d].pc = "failed" /\ calls[d].raisedBy = "delegate"

OtherForm == IF form = "router" THEN "modelRouter" ELSE "router"

\* C8: the positional form and the configuration-object form behave
\* identically: the prompt a call sends to the reasoning model is the prompt
\* the other form sends for the same inputs, and a call fails in selection
\* only if it does so under the other form.
C8_FormsIdentical ==
  \A c \in CallIdx :
    /\ calls[c].received # <<>> =>
         calls[c].received[1] =
           SelectionPrompt(OtherForm, models, inputPrompt, OptionsAt(calls[c].given))
    /\ calls[c].pc # "idle" =>
         (SelectionThrows(form, OptionsAt(calls[c].given))
            <=> SelectionThrows(OtherForm, OptionsAt(calls[c].given)))

\* C9: the chosen delegate receives the caller's options with every field
\* unmodified, selection leaves the options as they were, and the proxy
\* returns what the delegate produced, as produced.
C9_OptionsAndResultUntouched ==
  \A c \in CallIdx :
    /\ calls[c].options = calls[c].given
    /\ \A i \in 1..Len(calls[c].delegated) :
         calls[c].delegated[i].options = calls[c].given
    /\ calls[c].pc = "done" =>
         /\ calls[c].produced # NoResult
         /\ calls[c].result = calls[c].produced
         /\ calls[c].produced.model = calls[c].delegated[1].model
    /\ calls[c].pc # "done" => calls[c].result = NoResult

\* a doGenerate call and a doStream call with tools and history have returned
C9_Witness ==
  \E c, d \in CallIdx :
    /\ calls[c].pc = "done" /\ calls[c].method = "doGenerate"
    /\ OptionsAt(calls[c].given).tools.present
    /\ OptionsAt(calls[c].given).temperature = 1
    /\ calls[d].pc = "done" /\ calls[d].method = "doStream"

\* what C10 requires of a state: a call's prompt, delegate, forwarded
\* options and result come from its own options and its own response
C10_State ==
  \A c \in CallIdx :
    /\ calls[c].received # <<>> =>
         calls[c].received[1] = PromptFor(calls[c].given)
    /\ calls[c].delegated # <<>> =>
         /\ calls[c].delegated[1].options = calls[c].given
         /\ calls[c].delegated[1].model = models[calls[c].response].model
    /\ calls[c].pc = "done" => calls[c].result.model = models[calls[c].response].model

\* what C10 requires of a step: it belongs to one call and changes no other,
\* and once the proxy exists its candidate list and prompt stay as they are
C10_Step ==
  /\ \A c, d \in CallIdx : c # d /\ calls'[c] # calls[c] => calls'[d] = calls[d]
  /\ ctor = "ok" => models' = models /\ inputPrompt' = inputPrompt /\ form' = form

\* C10: for any interleaving of concurrent calls on one proxy, each call
\* delegates to the candidate selected by its own reasoning-model response and
\* forwards its own options; no call is affected by another, and the
\* candidate list and the original prompt are never modified.
C10_CallsIndependent == [](C10_State) /\ [][C10_Step]_vars

\* two calls in flight together, with different options and different answers
C10_Witness ==
  /\ calls[1].pc = "delegating" /\ calls[2].pc = "delegating"
  /\ calls[1].given # calls[2].given
  /\ calls[1].response # calls[2].response

\* the calls that have sent a decision prompt
Prompted == {c \in CallIdx : Len(calls[c].received) > 0}

\* C11: a tool map that is present with zero entries renders in the decision
\* prompt as the "None" sentinel, the same as when no tool map is supplied.
C11_EmptyToolsNone ==
  \A c \in Prompted :
    LET tools == OptionsAt(calls[c].given).tools IN
      tools.present /\ Len(tools.entries) = 0 =>
        calls[c].received[1].tools = RenderTools(NoTools)

\* C12 as stated: for an empty transcript the history section is the marker
\* used whenever there are zero completed calls.
C12_NoToolsYetSentinel ==
  \A c \in Prompted :
    form = "modelRouter" /\ Len(TranscriptOf(OptionsAt(calls[c].given)).items) = 0 =>
      calls[c].received[1].history = NoToolsYet

\* C12 amended: in the configuration-object form the history section of an
\* absent or empty transcript is the first-request sentinel, a marker of its
\* own that differs from the no-tools-yet sentinel and is rendered for no
\* other transcript; a history rendered as a list is never empty.
C12_FirstRequestSentinel ==
  /\ FirstRequest # NoToolsYet
  /\ \A c \in Prompted :
       form = "modelRouter" =>
         LET transcript == TranscriptOf(OptionsAt(calls[c].given))
             h == calls[c].received[1].history
         IN /\ (~transcript.present \/ Len(transcript.items) = 0) <=> h = FirstRequest
            /\ h.kind = "list" => Len(h.lines) > 0
            /\ h.kind \in {"first", "none", "list"}

\* a first call, with an empty prompt array, has sent its decision prompt
C12_Witness ==
  /\ form = "modelRouter"
  /\ \E c \in Prompted :
       /\ Len(TranscriptOf(OptionsAt(calls[c].given)).items) = 0
       /\ calls[c].received[1].history.kind = "first"

\* the calls whose reasoning model answered with a modelIndex outside 1..n
OutOfRange == {c \in CallIdx : calls[c].response # -1 /\ ~ValidIndex(calls[c].response)}

\* C13: when the structured output carries a modelIndex outside
\* [1, candidateCount] (0 included), the proxy call fails with an error that
\* reaches the caller, no candidate's doGenerate/doStream is invoked and no
\* other candidate is substituted: the call produces no result.
C13_OutOfRangeFails ==
  \A c \in OutOfRange :
    /\ calls[c].pc = "failed"
    /\ calls[c].error # Absent
    /\ calls[c].error = calls[c].raised
    /\ calls[c].delegated = <<>>
    /\ calls[c].produced = NoResult
    /\ calls[c].result = NoResult

\* one call answered with 0 and one answered with candidateCount + 1
C13_Witness ==
  \E c, d \in OutOfRange :
    /\ calls[c].response = 0
    /\ calls[d].response = Len(models) + 1
    /\ calls[c].pc = "failed" /\ calls[d].pc = "failed"

\* C14: for a candidate list of length n, the candidate list rendered into
\* the decision prompt has exactly n enumerated entries, numbered 1..n in
\* candidate order, entry i carrying the description of candidates[i-1]
\* (the i-th candidate of the list held by the proxy).
C14_CandidateList ==
  \A c \in Prompted :
    LET rendered == calls[c].received[1].models IN
      /\ Len(rendered) = Len(models)
      /\ calls[c].received[1].count = Len(models)
      /\ \A i \in 1..Len(models) :
           /\ rendered[i].n = i
           /\ rendered[i].label = i
           /\ rendered[i].description = models[i].description

\* a prompt sent over a list of several candidates with different descriptions
C14_Witness ==
  \E c \in Prompted :
    /\ Len(models) >= 2
    /\ Len(calls[c].received[1].models) = Len(models)
    /\ models[1].description # models[2].description

(***************************************************************************)
(* Properties of one step of the walk                                      *)
(***************************************************************************)
\* the step processes one tool-result part
ProcessedResult ==
  /\ Len(parts') = Len(parts) + 1
  /\ IsToolResult(parts'[Len(parts')])

\* the pending entries recorded under the identifier of result r
IdHits(r) ==
  {i \in 1..Len(walk.pending) : r.callId # Absent /\ walk.pending[i].key.id = r.callId}

\* the pending entries whose call has the tool name of result r
NameHits(r) ==
  {i \in 1..Len(walk.pending) :
     r.toolName # Absent /\ walk.pending[i].call.toolName = r.toolName}

\* the step moves pending entry i, and nothing else, to the end of completed
CompletesEntry(i) ==
  /\ walk'.completed = Append(walk.completed, walk.pending[i].call)
  /\ Len(walk'.pending) = Len(walk.pending) - 1
  /\ \A j \in 1..Len(walk'.pending) :
       walk'.pending[j] = walk.pending[IF j < i THEN j ELSE j + 1]

CompletesNothing ==
  /\ walk'.completed = walk.completed
  /\ walk'.pending = walk.pending

\* of the entries S, the one whose call was recorded first / the one that
\* comes first in the Map
EarliestRecorded(S) ==
  CHOOSE i \in S : \A j \in S : walk.pending[i].call.pos <= walk.pending[j].call.pos

FirstInMap(S) == CHOOSE i \in S : \A j \in S : i <= j

\* C15 as stated: a tool-result part completes the pending call with its
\* identifier if there is one, whatever the tool names; otherwise, if it
\* names a tool, the earliest recorded pending call with that tool name;
\* it completes at most one call, and nothing changes when nothing matches.
C15_EarliestRecorded ==
  [][ProcessedResult =>
       LET r == parts'[Len(parts')] IN
         IF IdHits(r) # {} THEN \E i \in IdHits(r) : CompletesEntry(i)
         ELSE IF NameHits(r) # {} THEN CompletesEntry(EarliestRecorded(NameHits(r)))
         ELSE CompletesNothing]_vars

\* C15 amended: as above, but the name fallback completes the first pending
\* entry with that tool name in the iteration order of the Map, which is the
\* order in which the keys were first set: a call recorded under a key that
\* is already pending takes the place of the call it replaces, so the entry
\* completed need not hold the earliest recorded call.
C15_FirstInMapOrder ==
  [][ProcessedResult =>
       LET r == parts'[Len(parts')] IN
         /\ Len(walk'.completed) <= Len(walk.completed) + 1
         /\ Cardinality(IdHits(r)) <= 1
         /\ IF IdHits(r) # {} THEN \E i \in IdHits(r) : CompletesEntry(i)
            ELSE IF NameHits(r) # {} THEN CompletesEntry(FirstInMap(NameHits(r)))
            ELSE CompletesNothing]_vars

\* the last part read is a result that names one tool and carries the
\* identifier of a pending call of another tool, and it completed that call
C15_Witness ==
  /\ Len(parts) > 0
  /\ Len(walk.by) > 0
  /\ LET r == parts[Len(parts)]
         done == walk.completed[Len(walk.completed)]
     IN /\ IsToolResult(r)
        /\ walk.by[Len(walk.by)] = Len(parts)
        /\ r.callId # Absent /\ r.toolName # Absent
        /\ parts[done.pos].callId = r.callId
        /\ done.toolName # r.toolName
        /\ \E i \in 1..Len(walk.pending) : walk.pending[i].call.toolName = r.toolName

(***************************************************************************)
(* Debug log                                                               *)
(***************************************************************************)
SelectionStart == <<"Selecting model...">>
GenerationStart == <<"Generating a response...">>
GenerationEnd == <<"Response generated.">>

\* the selection-end line of call c: the chosen candidate and the reasoning
SelectionEnd(c) == <<"Selected", ModelAt(models, selectedIndex(calls[c].response)), "why">>

IsGenerationLine(line) == line \in {GenerationStart, GenerationEnd}

HasLine(c, line) == \E i \in 1..Len(calls[c].lines) : calls[c].lines[i] = line

\* what C16 requires of a state
C16_State ==
  \A c \in CallIdx :
    /\ ~debug => calls[c].lines = <<>>
    /\ debug /\ calls[c].method = "doGenerate" =>
         /\ calls[c].pc = "done" =>
              calls[c].lines =
                <<SelectionStart, SelectionEnd(c), GenerationStart, GenerationEnd>>
         /\ \/ calls[c].pc = "delegating"
            \/ calls[c].pc = "failed" /\ calls[c].raisedBy = "delegate"
            => calls[c].lines = <<SelectionStart, SelectionEnd(c), GenerationStart>>
    /\ calls[c].pc = "failed" /\ calls[c].raisedBy \in {"reasoning", "router"} =>
         \A i \in 1..Len(calls[c].lines) :
           /\ ~IsGenerationLine(calls[c].lines[i])
           /\ calls[c].lines[i] = SelectionStart

\* the generation-end line appears in the step in which the delegate returns
C16_Step ==
  \A c \in CallIdx :
    ~HasLine(c, GenerationEnd) /\ (HasLine(c, GenerationEnd))' =>
      /\ calls[c].pc = "delegating"
      /\ calls'[c].pc = "done"
      /\ calls'[c].result # NoResult

\* C16: with debug disabled no proxy call emits a log line.  With debug
\* enabled a successful doGenerate emits selection start, selection end
\* (chosen candidate and reasoning), generation start, generation end, in
\* that order; the generation-end line is emitted only once the delegate has
\* returned and not when the delegate fails; a failed selection emits no
\* generation line.
C16_DebugLog == [](C16_State) /\ [][C16_Step]_vars

\* with debug enabled, one doGenerate has returned and another was failed by
\* its delegate
C16_Witness ==
  /\ debug
  /\ \E c, d \in CallIdx :
       /\ calls[c].method = "doGenerate" /\ calls[c].pc = "done"
       /\ Len(calls[c].lines) = 4
       /\ calls[d].method = "doGenerate" /\ calls[d].pc = "failed"
       /\ calls[d].raisedBy = "delegate"
       /\ Len(calls[d].lines) = 3

(***************************************************************************)
(* Bookkeeping of the walk                                                 *)
(***************************************************************************)
\* the recordings (transcript positions of tool-call parts) held in pending
\* and in completed
PendingPositions == {walk.pending[i].call.pos : i \in 1..Len(walk.pending)}
CompletedPositions == {walk.completed[i].pos : i \in 1..Len(walk.completed)}

ToolResultCount == Cardinality({p \in 1..Len(parts) : IsToolResult(parts[p])})

\* C17: at every point of the walk pending and completed are disjoint, a
\* recorded call being in at most one of them and at most once in completed;
\* the completed calls are at most as many as the tool-result parts
\* processed so far, and completed plus pending at most as many as the
\* tool-call parts seen so far.
C17_WalkBookkeeping ==
  /\ PendingPositions \cap CompletedPositions = {}
  /\ Cardinality(PendingPositions) = Len(walk.pending)
  /\ Cardinality(CompletedPositions) = Len(walk.completed)
  /\ \A p \in PendingPositions \cup CompletedPositions :
       p \in 1..Len(parts) /\ IsToolCall(parts[p])
  /\ Len(walk.completed) <= ToolResultCount
  /\ Len(walk.completed) + Len(walk.pending) <= ToolCallCount

\* a walk with a completed call and a pending call, in which one recording
\* was replaced and one result completed nothing
C17_Witness ==
  /\ Len(walk.completed) > 0
  /\ Len(walk.pending) > 0
  /\ Len(walk.completed) + Len(walk.pending) < ToolCallCount
  /\ Len(walk.completed) < ToolResultCount

(***************************************************************************)
(* Calls recorded without arguments                                        *)
(***************************************************************************)
\* for a transcript whose results carry the identifier of their call: the
\* results that complete a call, the ones among them within the history
\* window, and the call each completes
CompletingResults(items) ==
  {j \in 1..Len(items) :
     /\ IsToolResult(items[j])
     /\ \E p \in 1..(j - 1) : IsToolCall(items[p]) /\ items[p].callId = items[j].callId}

RetainedResults(items) ==
  {j \in CompletingResults(items) :
     Cardinality({k \in CompletingResults(items) : k > j}) < HistoryLimit}

CompletedBy(items, j) ==
  CHOOSE p \in 1..(j - 1) : IsToolCall(items[p]) /\ items[p].callId = items[j].callId

\* a completed call retained in the history window carries no arguments
NoArgsRetained(items) ==
  \E j \in RetainedResults(items) : items[CompletedBy(items, j)].args = Absent

\* k call/result pairs, the call of the first pair without arguments
PairPart(i) ==
  IF i % 2 = 1
    THEN Part("assistant", "tool-call", PriorIds[(i + 1) \div 2], PriorTools[(i + 1) \div 2],
              IF i = 1 THEN Absent ELSE "x")
    ELSE Part("tool", "tool-result", PriorIds[i \div 2], PriorTools[i \div 2], Absent)

PairTranscript(k) == [i \in 1..(2 * k) |-> PairPart(i)]

\* the argument-less call throws while it is within the window and no longer
\* once a later completed call has pushed it out
WindowDecides ==
  LET full == PairTranscript(HistoryLimit)
      long == PairTranscript(HistoryLimit + 1)
  IN /\ NoArgsRetained(full)
     /\ extractToolCallHistory(Messages(full), HistoryLimit) = RenderThrows
     /\ ~NoArgsRetained(long)
     /\ extractToolCallHistory(Messages(long), HistoryLimit).kind = "list"
     /\ Len(extractToolCallHistory(Messages(long), HistoryLimit).lines) = HistoryLimit

\* the calls made on the proxy so far
Invoked == {c \in CallIdx : calls[c].pc # "idle"}

====
